---------------------------- MODULE Spec2Model ----------------------------
(***************************************************************************)
(* Model of the Python binding of the Symbol identifier                    *)
(* (nautilus_core/model/src/python/identifiers/symbol.rs).                 *)
(*                                                                         *)
(* A string is a sequence of one-character strings.  A Python object is a  *)
(* record [type, chars, items, num]; a PyResult is [ok, val] where val is  *)
(* the returned object or the raised exception.  Two Symbol instances, x   *)
(* and y, live in the host; `last` is the most recent call and its result. *)
(***************************************************************************)
EXTENDS Integers, Sequences, FiniteSets, TLC

VARIABLES live, inner, last

vars == <<live, inner, last>>

----------------------------------------------------------------------------
(* Bounds and alphabets *)

\* longest string enumerated exhaustively over Alphabet
MaxInputLen == 1

\* model width of usize/isize/u64 (64 in the build)
HashBits == 6

\* crate::identifiers::symbol length bounds (I1); MAX_LEN is scaled down
\* from the system's cap, and is no shorter than the sentinel "NULL"
MIN_LEN == 1
MAX_LEN == 4

\* the two Symbol instances the host holds
Slots == {"x", "y"}

\* characters of the enumerated strings: a plain one, the separator, a blank
Alphabet == {"A", ".", " "}

\* a lone surrogate code point: legal in a Python str, not encodable as UTF-8
Surrogate == "U+D800"

BoundedSeq(S, n) == UNION {[1..k -> S] : k \in 0..n}

NULL == <<"N", "U", "L", "L">>

TooLong == [i \in 1..(MAX_LEN + 1) |-> "A"]

Composite == <<"A", ".", "A">>

\* a valid value with a leading blank
Padded == <<" ", "A">>

\* the values a Rust &str argument ranges over
RustStrs ==
    BoundedSeq(Alphabet, MaxInputLen) \cup {NULL, TooLong, Composite, Padded}

\* the values a Python str ranges over
PyStrs == RustStrs \cup {<<Surrogate>>, <<"A", Surrogate>>}

----------------------------------------------------------------------------
(* Python objects and results *)

PyObj(t, c, i, n) == [type |-> t, chars |-> c, items |-> i, num |-> n]

PyUnicode(s) == PyObj("str", s, <<>>, 0)

PyTupleOf(items) == PyObj("tuple", <<>>, items, 0)

PyLong(n) == PyObj("int", <<>>, <<>>, n)

PyBool(b) == PyObj("bool", <<>>, <<>>, IF b THEN 1 ELSE 0)

PyNone == PyObj("NoneType", <<>>, <<>>, 0)

NotImplemented == PyObj("NotImplementedType", <<>>, <<>>, 0)

\* a Symbol instance seen as a Python object: its inner value
PySymbol(value) == PyObj("Symbol", value, <<>>, 0)

\* the bound static method Symbol._safe_constructor
SafeConstructorAttr == PyObj("builtin_function_or_method",
                             <<"_safe_constructor">>, <<>>, 0)

PyErr(kind) == PyObj(kind, <<>>, <<>>, 0)

Ok(v) == [ok |-> TRUE, val |-> v]

Err(e) == [ok |-> FALSE, val |-> e]

----------------------------------------------------------------------------
(* crate::identifiers::symbol::Symbol (core type) *)

IsWhitespace(c) == c = " "

\* format rule of check_valid_string: not made of whitespace only
ViolatesFormat(value) ==
    /\ Len(value) > 0
    /\ \A i \in 1..Len(value) : IsWhitespace(value[i])

new_checked(value) ==
    IF Len(value) < MIN_LEN \/ Len(value) > MAX_LEN \/ ViolatesFormat(value)
    THEN Err("ValidationError")
    ELSE Ok(value)

\* From<&str> for Symbol: no validation
from(value) == value

\* Symbol::set_inner: replaces the inner string
set_inner(self, value) == value

\* Display for Symbol
to_string(self) == self

to_pyvalue_err(e) == PyErr("ValueError")

\* derived PartialEq: equality of the inner strings
eq(self, other) == self = other

ne(self, other) == ~eq(self, other)

Separator == "."

is_composite(self) == \E i \in 1..Len(self) : self[i] = Separator

\* the part before the first separator, or the whole value
root(self) ==
    IF is_composite(self)
    THEN LET first == CHOOSE i \in 1..Len(self) :
                          /\ self[i] = Separator
                          /\ \A j \in 1..(i - 1) : self[j] # Separator
         IN  SubSeq(self, 1, first - 1)
    ELSE self

\* the root with a wildcard when composite, else the value
topic(self) ==
    IF root(self) = self THEN self ELSE root(self) \o <<"*">>

Ord(c) ==
    CASE c = "A" -> 65
      [] c = "." -> 46
      [] c = " " -> 32
      [] c = "N" -> 78
      [] c = "U" -> 85
      [] c = "L" -> 76
      [] OTHER -> 63

Modulus == 2 ^ HashBits

RECURSIVE write(_, _)
\* Hasher::write: folds the bytes of the value into the hasher state
write(h, bytes) ==
    IF bytes = <<>> THEN h
    ELSE write((h * 31 + Ord(Head(bytes))) % Modulus, Tail(bytes))

\* derived Hash for Symbol, fed to DefaultHasher::new(), then finish(): a u64
finish(self) == write(7, self)

\* u64 as isize: two's complement reinterpretation
as_isize(u) == IF u >= Modulus \div 2 THEN u - Modulus ELSE u

----------------------------------------------------------------------------
(* #[pymethods] impl Symbol: constructors and pickling *)

\* mutant: the sentinel built from the empty string
_safe_constructor_empty == PySymbol(from(<<>>))

\* mutant: the factory builds the Symbol without validation
py_from_str_unchecked(value) == Ok(PySymbol(from(value)))

py_new(value) ==
    LET r == new_checked(value)
    IN  IF r.ok THEN Ok(PySymbol(r.val)) ELSE Err(to_pyvalue_err(r.val))

_safe_constructor == PySymbol(from(NULL))

py_from_str(value) ==
    LET r == new_checked(value)
    IN  IF r.ok THEN Ok(PySymbol(r.val)) ELSE Err(to_pyvalue_err(r.val))

\* state.extract::<(&PyString,)>(py)
extract_tuple1(state) ==
    IF state.type # "tuple" THEN Err(PyErr("TypeError"))
    ELSE IF Len(state.items) # 1 THEN Err(PyErr("ValueError"))
    ELSE IF state.items[1].type # "str" THEN Err(PyErr("TypeError"))
    ELSE Ok(state.items[1])

\* <&str>::extract(&PyString): the UTF-8 view of a Python str
extract_str(s) ==
    IF \E i \in 1..Len(s.chars) : s.chars[i] = Surrogate
    THEN Err(PyErr("UnicodeEncodeError"))
    ELSE Ok(s.chars)

\* mutant: restoration re-validates the string like the checked constructor
__setstate__validating(self, state) ==
    LET t == extract_tuple1(state)
    IN  IF ~t.ok THEN [res |-> t, inner |-> self]
        ELSE LET v == extract_str(t.val)
             IN  IF ~v.ok THEN [res |-> v, inner |-> self]
                 ELSE IF ~new_checked(v.val).ok
                      THEN [res |-> Err(to_pyvalue_err("ValidationError")),
                            inner |-> self]
                      ELSE [res |-> Ok(PyNone),
                            inner |-> set_inner(self, v.val)]

\* mutant: the value is cleared before the state is extracted
__setstate__clear_first(self, state) ==
    LET t == extract_tuple1(state)
    IN  IF ~t.ok THEN [res |-> t, inner |-> <<>>]
        ELSE LET v == extract_str(t.val)
             IN  IF ~v.ok THEN [res |-> v, inner |-> <<>>]
                 ELSE [res |-> Ok(PyNone), inner |-> set_inner(self, v.val)]

\* the result, and the inner value of self after the call
__setstate__(self, state) ==
    LET t == extract_tuple1(state)
    IN  IF ~t.ok THEN [res |-> t, inner |-> self]
        ELSE LET v == extract_str(t.val)
             IN  IF ~v.ok THEN [res |-> v, inner |-> self]
                 ELSE [res |-> Ok(PyNone), inner |-> set_inner(self, v.val)]

\* mutant: the state carries the diagnostic form instead of the canonical one
__getstate__repr(self) ==
    Ok(PyTupleOf(<<PyUnicode(<<"S", "y", "m", "b", "o", "l", "(", "'">>
                             \o to_string(self) \o <<"'", ")">>)>>))

__getstate__(self) == Ok(PyTupleOf(<<PyUnicode(to_string(self))>>))

__reduce__(self) ==
    LET safe_constructor == SafeConstructorAttr
        state == __getstate__(self)
    IN  IF ~state.ok THEN state
        ELSE Ok(PyTupleOf(<<safe_constructor, PyTupleOf(<<>>), state.val>>))

CompareOps == {"Lt", "Le", "Eq", "Ne", "Gt", "Ge"}

\* other.extract::<Symbol>(py): a clone of the Symbol, or a downcast error
extract_symbol(other) ==
    IF other.type = "Symbol" THEN Ok(other.chars) ELSE Err(PyErr("TypeError"))

\* mutant: a failed coercion compares unequal instead of NotImplemented
__richcmp__false_on_mismatch(self, other, op) ==
    LET o == extract_symbol(other)
    IN  IF o.ok
        THEN CASE op = "Eq" -> PyBool(eq(self, o.val))
               [] op = "Ne" -> PyBool(ne(self, o.val))
               [] OTHER -> NotImplemented
        ELSE CASE op = "Eq" -> PyBool(FALSE)
               [] op = "Ne" -> PyBool(TRUE)
               [] OTHER -> NotImplemented

__richcmp__(self, other, op) ==
    LET o == extract_symbol(other)
    IN  IF o.ok
        THEN CASE op = "Eq" -> PyBool(eq(self, o.val))
               [] op = "Ne" -> PyBool(ne(self, o.val))
               [] OTHER -> NotImplemented
        ELSE NotImplemented

__hash__(self) == as_isize(finish(self))

\* mutant: the diagnostic form is the bare canonical string
__repr__plain(self) == to_string(self)

__repr__(self) ==
    <<"S", "y", "m", "b", "o", "l">> \o <<"(", "'">> \o to_string(self)
        \o <<"'", ")">>

__str__(self) == to_string(self)

py_value(self) == to_string(self)

py_is_composite(self) == is_composite(self)

py_root(self) == root(self)

py_topic(self) == topic(self)

----------------------------------------------------------------------------
(* Calls made by the host *)

Call(op, self, arg, cmp, res) ==
    [op |-> op, self |-> self, arg |-> arg, cmp |-> cmp, res |-> res]

NoCall == Call("none", "none", PyNone, "none", Ok(PyNone))

\* the states a host may hand to __setstate__
StateInputs ==
    {PyTupleOf(<<PyUnicode(s)>>) : s \in PyStrs}
    \cup {PyTupleOf(<<>>), PyTupleOf(<<PyLong(7)>>), PyTupleOf(<<PyNone>>),
          PyTupleOf(<<PyUnicode(<<"A">>), PyUnicode(<<"A">>)>>),
          PyUnicode(<<"A">>), PyNone, PyLong(7)}

Init ==
    /\ live = {}
    /\ inner = [s \in Slots |-> <<>>]
    /\ last = NoCall

\* Symbol(value): a new instance is bound to a free name on success
Call_py_new(slot, value) ==
    /\ slot \notin live
    /\ LET r == py_new(value)
       IN  /\ last' = Call("py_new", slot, PyUnicode(value), "none", r)
           /\ IF r.ok
              THEN /\ live' = live \cup {slot}
                   /\ inner' = [inner EXCEPT ![slot] = r.val.chars]
              ELSE UNCHANGED <<live, inner>>

Call_py_from_str(slot, value) ==
    /\ slot \notin live
    /\ LET r == py_from_str(value)
       IN  /\ last' = Call("from_str", slot, PyUnicode(value), "none", r)
           /\ IF r.ok
              THEN /\ live' = live \cup {slot}
                   /\ inner' = [inner EXCEPT ![slot] = r.val.chars]
              ELSE UNCHANGED <<live, inner>>

Call__safe_constructor(slot) ==
    /\ slot \notin live
    /\ LET r == _safe_constructor
       IN  /\ last' = Call("_safe_constructor", slot, PyNone, "none", Ok(r))
           /\ live' = live \cup {slot}
           /\ inner' = [inner EXCEPT ![slot] = r.chars]

\* the states the host passes on: its own, or the one just handed to it by
\* __getstate__ or inside the descriptor of __reduce__
HostStates ==
    StateInputs
    \cup (IF last.op = "__getstate__" /\ last.res.ok THEN {last.res.val}
          ELSE IF /\ last.op = "__reduce__"
                  /\ last.res.ok
                  /\ Len(last.res.val.items) = 3
          THEN {last.res.val.items[3]}
          ELSE {})

Call___setstate__(self, state) ==
    /\ self \in live
    /\ LET r == __setstate__(inner[self], state)
       IN  /\ last' = Call("__setstate__", self, state, "none", r.res)
           /\ inner' = [inner EXCEPT ![self] = r.inner]
           /\ UNCHANGED live

\* mutant: extracting the state takes the value out of the instance
Call___getstate__take(self) ==
    /\ self \in live
    /\ last' = Call("__getstate__", self, PyNone, "none",
                    Ok(PyTupleOf(<<PyUnicode(to_string(inner[self]))>>)))
    /\ inner' = [inner EXCEPT ![self] = <<>>]
    /\ UNCHANGED live

Call___getstate__(self) ==
    /\ self \in live
    /\ last' = Call("__getstate__", self, PyNone, "none",
                 __getstate__(inner[self]))
    /\ UNCHANGED <<live, inner>>

Call___reduce__(self) ==
    /\ self \in live
    /\ last' = Call("__reduce__", self, PyNone, "none",
                 __reduce__(inner[self]))
    /\ UNCHANGED <<live, inner>>

\* the right-hand operands of a comparison: either instance, or a non-Symbol
Operands(self) ==
    {PySymbol(inner[s]) : s \in live}
    \cup {PyUnicode(inner[self]), PyNone, PyLong(7)}

\* mutant: the coercion error is propagated to the caller
Call___richcmp__raise(self, other, op) ==
    /\ self \in live
    /\ last' = Call("__richcmp__", self, other, op,
                    IF extract_symbol(other).ok
                    THEN Ok(__richcmp__(inner[self], other, op))
                    ELSE extract_symbol(other))
    /\ UNCHANGED <<live, inner>>

Call___richcmp__(self, other, op) ==
    /\ self \in live
    /\ last' = Call("__richcmp__", self, other, op,
                    Ok(__richcmp__(inner[self], other, op)))
    /\ UNCHANGED <<live, inner>>

\* mutant: the hash of the object's identity rather than of its value
Call___hash__identity(self) ==
    /\ self \in live
    /\ last' = Call("__hash__", self, PyNone, "none",
                    Ok(PyLong(IF self = "x" THEN 1 ELSE 2)))
    /\ UNCHANGED <<live, inner>>

Call___hash__(self) ==
    /\ self \in live
    /\ last' = Call("__hash__", self, PyNone, "none",
                    Ok(PyLong(__hash__(inner[self]))))
    /\ UNCHANGED <<live, inner>>

Call___repr__(self) ==
    /\ self \in live
    /\ last' = Call("__repr__", self, PyNone, "none",
                    Ok(PyUnicode(__repr__(inner[self]))))
    /\ UNCHANGED <<live, inner>>

Call___str__(self) ==
    /\ self \in live
    /\ last' = Call("__str__", self, PyNone, "none",
                    Ok(PyUnicode(__str__(inner[self]))))
    /\ UNCHANGED <<live, inner>>

Call_py_value(self) ==
    /\ self \in live
    /\ last' = Call("value", self, PyNone, "none",
                    Ok(PyUnicode(py_value(inner[self]))))
    /\ UNCHANGED <<live, inner>>

Call_py_is_composite(self) ==
    /\ self \in live
    /\ last' = Call("is_composite", self, PyNone, "none",
                    Ok(PyBool(py_is_composite(inner[self]))))
    /\ UNCHANGED <<live, inner>>

Call_py_root(self) ==
    /\ self \in live
    /\ last' = Call("root", self, PyNone, "none",
                    Ok(PyUnicode(py_root(inner[self]))))
    /\ UNCHANGED <<live, inner>>

Call_py_topic(self) ==
    /\ self \in live
    /\ last' = Call("topic", self, PyNone, "none",
                    Ok(PyUnicode(py_topic(inner[self]))))
    /\ UNCHANGED <<live, inner>>

Next ==
    \/ \E slot \in Slots, value \in RustStrs : Call_py_new(slot, value)
    \/ \E slot \in Slots, value \in RustStrs : Call_py_from_str(slot, value)
    \/ \E slot \in Slots : Call__safe_constructor(slot)
    \/ \E self \in Slots, state \in HostStates : Call___setstate__(self, state)
    \/ \E self \in Slots : Call___getstate__(self)
    \/ \E self \in Slots : Call___reduce__(self)
    \/ \E self \in Slots, op \in CompareOps :
           \E other \in Operands(self) : Call___richcmp__(self, other, op)
    \/ \E self \in Slots : Call___hash__(self)
    \/ \E self \in Slots : Call___repr__(self)
    \/ \E self \in Slots : Call___str__(self)
    \/ \E self \in Slots : Call_py_value(self)
    \/ \E self \in Slots : Call_py_is_composite(self)
    \/ \E self \in Slots : Call_py_root(self)
    \/ \E self \in Slots : Call_py_topic(self)

Spec == Init /\ [][Next]_vars

----------------------------------------------------------------------------
(* Properties *)

InBounds(value) == Len(value) >= MIN_LEN /\ Len(value) <= MAX_LEN

\* a one-element tuple holding a str
OneStringTuple(state) ==
    /\ state.type = "tuple"
    /\ Len(state.items) = 1
    /\ state.items[1].type = "str"

Encodable(s) == \A i \in 1..Len(s) : s[i] # Surrogate

IsSubstring(sub, s) ==
    \E i \in 0..(Len(s) - Len(sub)) : SubSeq(s, i + 1, i + Len(sub)) = sub

ReadOnlyOps ==
    {"__getstate__", "__reduce__", "__richcmp__", "__hash__", "__repr__",
     "__str__", "value", "is_composite", "root", "topic"}

\* the descriptor the protocol prescribes for a Symbol holding `value`
Descriptor(value) ==
    PyTupleOf(<<SafeConstructorAttr, PyTupleOf(<<>>),
                PyTupleOf(<<PyUnicode(value)>>)>>)

\* C1: __reduce__ on a Symbol yields (safe constructor, empty arguments,
\* one-field state holding the canonical string); an instance restored by
\* __setstate__ from the state of the descriptor of a validly constructed
\* Symbol x compares equal to x, has the same str and hash, and is the
\* Symbol the checked constructor builds from that string.
C1_RoundTrip ==
    /\ last.op = "__reduce__" => last.res = Ok(Descriptor(inner[last.self]))
    /\ \A x \in live :
          ( /\ last.op = "__setstate__"
            /\ new_checked(inner[x]).ok
            /\ __reduce__(inner[x]).ok
            /\ Len(__reduce__(inner[x]).val.items) = 3
            /\ last.arg = __reduce__(inner[x]).val.items[3] )
          => LET y == inner[last.self]
             IN  /\ last.res = Ok(PyNone)
                 /\ __richcmp__(y, PySymbol(inner[x]), "Eq") = PyBool(TRUE)
                 /\ __richcmp__(y, PySymbol(inner[x]), "Ne") = PyBool(FALSE)
                 /\ __str__(y) = __str__(inner[x])
                 /\ __hash__(y) = __hash__(inner[x])
                 /\ py_new(__str__(inner[x])) = Ok(PySymbol(y))

\* C1 witness: y, made by _safe_constructor or otherwise, was just restored
\* from the state of x's descriptor and both hold the composite value
C1_Witness ==
    /\ last.op = "__setstate__"
    /\ last.self = "y"
    /\ live = Slots
    /\ last.arg = Descriptor(inner["x"]).items[3]
    /\ inner["x"] = Composite
    /\ inner["y"] = Composite

\* C2: the constructor and from_str give the same outcome for every string:
\* a string within the length bounds that keeps the format rule yields a
\* Symbol whose canonical string is that string, an empty or over-long one
\* yields a ValueError and no Symbol.
C2_CheckedEntryPoints ==
    last.op \in {"py_new", "from_str"} =>
       LET s == last.arg.chars
       IN  /\ py_new(s) = py_from_str(s)
           /\ (InBounds(s) /\ ~ViolatesFormat(s)) =>
                 /\ last.res = Ok(PySymbol(s))
                 /\ last.self \in live
                 /\ inner[last.self] = s
                 /\ __str__(inner[last.self]) = s
           /\ (Len(s) = 0 \/ Len(s) > MAX_LEN) =>
                 /\ last.res = Err(PyErr("ValueError"))
                 /\ last.self \notin live

C2_Witness ==
    /\ last.op = "from_str"
    /\ last.res.ok
    /\ inner[last.self] = Padded
    /\ \E s \in live \ {last.self} : inner[s] = Composite

\* C3 (as claimed): every existing Symbol has a value whose length is within
\* [MIN_LEN, MAX_LEN], after any sequence of operations.
C3_I1_Always == \A s \in live : InBounds(inner[s])

\* C3 (amended): a Symbol's value is within [MIN_LEN, MAX_LEN] when it is
\* created and stays so under every operation except a successful
\* __setstate__, which stores the string of its state whatever its length.
C3_I1_ExceptRestore ==
    [][\A s \in Slots :
          (s \in live' /\ ~InBounds(inner'[s])) =>
             \/ s \in live /\ inner'[s] = inner[s]
             \/ /\ s \in live
                /\ last'.op = "__setstate__"
                /\ last'.self = s
                /\ last'.res.ok
                /\ OneStringTuple(last'.arg)
                /\ inner'[s] = last'.arg.items[1].chars]_vars

C3_Witness ==
    /\ live = Slots
    /\ last.op = "__setstate__"
    /\ last.res.ok
    /\ inner[last.self] = <<>>
    /\ \E s \in live : inner[s] = NULL

\* C4 (as claimed): no operation other than checked construction returns an
\* error.
C4_OnlyConstructionFails ==
    last.op \notin {"py_new", "from_str"} => last.res.ok

\* C4 (amended): checked construction fails only by validation; the
\* accessors, comparison, hashing, __repr__, __str__, __getstate__ and
\* __reduce__ never return an error; __setstate__ returns an error exactly
\* when its state is not a one-element tuple holding an encodable str.
C4_FailurePaths ==
    /\ last.op \in ReadOnlyOps \cup {"_safe_constructor", "none"} => last.res.ok
    /\ last.op \in {"py_new", "from_str"} =>
          (~last.res.ok <=> ~(InBounds(last.arg.chars)
                               /\ ~ViolatesFormat(last.arg.chars)))
    /\ last.op = "__setstate__" =>
          (last.res.ok <=> ( /\ OneStringTuple(last.arg)
                             /\ Encodable(last.arg.items[1].chars) ))

C4_Witness ==
    /\ last.op = "__richcmp__"
    /\ last.arg = PyNone
    /\ last.cmp = "Eq"
    /\ last.res.ok

\* C5 (as claimed): __setstate__ succeeds for every str carried as the single
\* field of a state tuple, and the value is then exactly that string.
C5_RestoreAnyString ==
    (last.op = "__setstate__" /\ OneStringTuple(last.arg)) =>
       /\ last.res.ok
       /\ inner[last.self] = last.arg.items[1].chars

\* C5 (amended): __setstate__ succeeds for every str that is encodable as
\* UTF-8 (no lone surrogate) carried as the single field of a state tuple,
\* valid for the checked constructor or not, and the value is then exactly
\* that string whatever it was before.
C5_RestoreEncodable ==
    [][( /\ last'.op = "__setstate__"
         /\ OneStringTuple(last'.arg)
         /\ Encodable(last'.arg.items[1].chars) ) =>
          /\ last'.res = Ok(PyNone)
          /\ inner'[last'.self] = last'.arg.items[1].chars
          /\ \A s \in Slots \ {last'.self} : inner'[s] = inner[s]
          /\ live' = live]_vars

C5_Witness ==
    /\ last.op = "__setstate__"
    /\ last.res.ok
    /\ last.arg = PyTupleOf(<<PyUnicode(TooLong)>>)
    /\ inner[last.self] = TooLong

\* C6: __richcmp__ returns the equality of the canonical strings for ==, its
\* negation for !=, when the other operand is a Symbol, and NotImplemented
\* for every relational operator and for every non-Symbol operand.
C6_RichCmp ==
    last.op = "__richcmp__" =>
       last.res =
          Ok(IF last.arg.type = "Symbol" /\ last.cmp = "Eq"
             THEN PyBool(inner[last.self] = last.arg.chars)
             ELSE IF last.arg.type = "Symbol" /\ last.cmp = "Ne"
             THEN PyBool(inner[last.self] # last.arg.chars)
             ELSE NotImplemented)

C6_Witness ==
    /\ last.op = "__richcmp__"
    /\ last.cmp = "Eq"
    /\ last.arg = PyUnicode(inner[last.self])
    /\ last.res = Ok(NotImplemented)

\* C7: two Symbols compare equal iff their canonical strings are identical,
\* equal Symbols have equal hashes, and a call of __hash__ returns the hash
\* of every Symbol holding the same value.
C7_EqHash ==
    /\ \A a, b \in live :
          /\ (__richcmp__(inner[a], PySymbol(inner[b]), "Eq") = PyBool(TRUE))
                <=> (__str__(inner[a]) = __str__(inner[b]))
          /\ (__richcmp__(inner[a], PySymbol(inner[b]), "Eq") = PyBool(TRUE))
                => (__hash__(inner[a]) = __hash__(inner[b]))
    /\ last.op = "__hash__" =>
          /\ last.res.ok
          /\ last.res.val.type = "int"
          /\ last.res.val.num >= -(Modulus \div 2)
          /\ last.res.val.num < Modulus \div 2
          /\ \A b \in live :
                __richcmp__(inner[last.self], PySymbol(inner[b]), "Eq")
                      = PyBool(TRUE)
                   => last.res.val.num = __hash__(inner[b])

C7_Witness ==
    /\ last.op = "__hash__"
    /\ last.self = "x"
    /\ live = Slots
    /\ inner["x"] = inner["y"]
    /\ inner["x"] = Composite

\* C8: only a successful __setstate__ on an instance changes its value, and
\* then to the string of its state; no instance disappears; a read-only
\* operation repeated on the same instance returns the same result.
C8_Frame ==
    [][/\ live \subseteq live'
       /\ \A s \in live :
             inner'[s] # inner[s] =>
                /\ last'.op = "__setstate__"
                /\ last'.self = s
                /\ last'.res.ok
                /\ inner'[s] = last'.arg.items[1].chars
       /\ ( /\ last.op \in ReadOnlyOps
            /\ last'.op = last.op
            /\ last'.self = last.self
            /\ last'.arg = last.arg
            /\ last'.cmp = last.cmp ) => last'.res = last.res]_vars

C8_Witness ==
    /\ last.op = "root"
    /\ inner[last.self] = Composite
    /\ last.res = Ok(PyUnicode(<<"A">>))

\* C9: __repr__ is Symbol('<value>'): it contains the __str__ output, never
\* equals it, and __str__ and the value getter return the canonical string.
C9_Repr ==
    \A s \in live :
       LET v == inner[s]
           r == __repr__(v)
       IN  /\ Len(r) = Len(v) + 10
           /\ SubSeq(r, 1, 8) = <<"S", "y", "m", "b", "o", "l", "(", "'">>
           /\ SubSeq(r, 9, 8 + Len(v)) = v
           /\ SubSeq(r, 9 + Len(v), 10 + Len(v)) = <<"'", ")">>
           /\ IsSubstring(__str__(v), r)
           /\ r # __str__(v)
           /\ __str__(v) = v
           /\ py_value(v) = v
           /\ last.op = "__repr__" /\ last.self = s => last.res = Ok(PyUnicode(r))
           /\ last.op \in {"__str__", "value"} /\ last.self = s =>
                 last.res = Ok(PyUnicode(v))

C9_Witness ==
    /\ last.op = "__repr__"
    /\ inner[last.self] = Composite
    /\ IsSubstring(Composite, last.res.val.chars)

\* C10: __setstate__ with a state that is not a one-element tuple holding a
\* str returns an error and leaves every instance's value as it was.
C10_FailedRestore ==
    [][(last'.op = "__setstate__" /\ ~OneStringTuple(last'.arg)) =>
          /\ ~last'.res.ok
          /\ inner' = inner
          /\ live' = live]_vars

C10_Witness ==
    /\ last.op = "__setstate__"
    /\ last.arg = PyTupleOf(<<>>)
    /\ ~last.res.ok
    /\ inner[last.self] = NULL

=============================================================================
